---------------------------- MODULE Spec2Model ----------------------------
(***************************************************************************)
(* Depth of Field Utilities (src/dof-utils.py): the optics function        *)
(* dof_calculation, the viewport draw callback draw_callback_3d and the    *)
(* modal operators that start, stop and reset the overlays.                *)
(*                                                                         *)
(* Numbers.  Python floats are modelled as exact rationals <<n, d>> in     *)
(* lowest terms with d > 0; every input is drawn from values for which     *)
(* math.sqrt is exact.  A float division by zero raises ZeroDivisionError  *)
(* in Python and is modelled as the value ZeroDivisionError.               *)
(*                                                                         *)
(* Specifications.  SpecOptics: dof_calculation over bounded intrinsics    *)
(* and focus distances.  SpecDraw: the draw callbacks of a running         *)
(* visualization over camera poses, focus objects and settings.  SpecPick: *)
(* focus picking while the cursor and the active object change.  Spec:     *)
(* all operators and unregister, with their handlers, handles and modal    *)
(* sessions.                                                               *)
(***************************************************************************)
EXTENDS Integers, Sequences, FiniteSets, TLC

(***************************************************************************)
(* Rational arithmetic                                                     *)
(***************************************************************************)
Abs(x) == IF x < 0 THEN -x ELSE x

RECURSIVE GCD(_, _)
GCD(m, n) == IF n = 0 THEN m ELSE GCD(n, m % n)

\* n/d in lowest terms with a positive denominator (d # 0)
Rat(n, d) ==
    LET g == GCD(Abs(n), Abs(d))
        s == IF d < 0 THEN -1 ELSE 1
    IN  <<(s * n) \div g, (s * d) \div g>>

Num(n) == <<n, 1>>
Zero == Num(0)
Neg(x) == <<-x[1], x[2]>>
IsZero(x) == x[1] = 0

RAdd(x, y) ==
    LET g == GCD(x[2], y[2])
    IN  Rat(x[1] * (y[2] \div g) + y[1] * (x[2] \div g), (x[2] \div g) * y[2])

RSub(x, y) == RAdd(x, Neg(y))

RMul(x, y) ==
    LET g1 == GCD(Abs(x[1]), y[2])
        g2 == GCD(Abs(y[1]), x[2])
    IN  Rat((x[1] \div g1) * (y[1] \div g2), (x[2] \div g2) * (y[2] \div g1))

\* x / y for y # 0
RDiv(x, y) == RMul(x, Rat(y[2], y[1]))

\* n1/d1 < n2/d2 for n1, n2 >= 0 and d1, d2 > 0, by continued fractions
RECURSIVE LtPos(_, _, _, _)
LtPos(n1, d1, n2, d2) ==
    LET q1 == n1 \div d1
        q2 == n2 \div d2
        r1 == n1 % d1
        r2 == n2 % d2
    IN  IF q1 # q2 THEN q1 < q2
        ELSE IF r2 = 0 THEN FALSE
        ELSE IF r1 = 0 THEN TRUE
        ELSE LtPos(d2, r2, d1, r1)

RLt(x, y) ==
    IF x[1] < 0
    THEN IF y[1] < 0 THEN LtPos(-y[1], y[2], -x[1], x[2]) ELSE TRUE
    ELSE IF y[1] < 0 THEN FALSE ELSE LtPos(x[1], x[2], y[1], y[2])

RLe(x, y) == ~RLt(y, x)

\* math.sqrt on a perfect square
RECURSIVE SqrtBetween(_, _, _)
SqrtBetween(n, lo, hi) ==
    IF lo = hi THEN lo
    ELSE LET mid == (lo + hi + 1) \div 2
         IN  IF mid <= n \div mid THEN SqrtBetween(n, mid, hi)
                                  ELSE SqrtBetween(n, lo, mid - 1)
ISqrt(n) == IF n = 0 THEN 0 ELSE SqrtBetween(n, 1, n)

Sqrt(x) == <<ISqrt(x[1]), ISqrt(x[2])>>

ZeroDivisionError == "ZeroDivisionError"
None == "None"

(***************************************************************************)
(* mathutils: Vector, Matrix, intersect_point_line                         *)
(***************************************************************************)
Vector(x, y, z) == <<x, y, z>>
VAdd(u, v) == <<RAdd(u[1], v[1]), RAdd(u[2], v[2]), RAdd(u[3], v[3])>>
VSub(u, v) == <<RSub(u[1], v[1]), RSub(u[2], v[2]), RSub(u[3], v[3])>>
VScale(k, v) == <<RMul(k, v[1]), RMul(k, v[2]), RMul(k, v[3])>>
Dot(u, v) == RAdd(RAdd(RMul(u[1], v[1]), RMul(u[2], v[2])), RMul(u[3], v[3]))
\* Vector.length
Length(v) == Sqrt(Dot(v, v))

\* a 4x4 transform: the three basis columns and the translation column
Matrix(c1, c2, c3, t) == [col |-> <<c1, c2, c3>>, translation |-> t]
Identity ==
    Matrix(Vector(Num(1), Zero, Zero), Vector(Zero, Num(1), Zero),
           Vector(Zero, Zero, Num(1)), Vector(Zero, Zero, Zero))

\* Vector.normalized of one column (a zero column stays zero)
NormalizedColumn(c) ==
    IF IsZero(Dot(c, c)) THEN c ELSE VScale(RDiv(Num(1), Length(c)), c)

\* Matrix.normalized(): every basis column scaled to unit length
normalized(mat) ==
    [col |-> <<NormalizedColumn(mat.col[1]), NormalizedColumn(mat.col[2]),
               NormalizedColumn(mat.col[3])>>,
     translation |-> mat.translation]

\* the rotation part of mat applied to v
Rotate(mat, v) ==
    VAdd(VAdd(VScale(v[1], mat.col[1]), VScale(v[2], mat.col[2])),
         VScale(v[3], mat.col[3]))

\* mat @ Vector
MatVec(mat, v) == VAdd(Rotate(mat, v), mat.translation)

\* m1 @ m2
MatMat(m1, m2) ==
    [col |-> <<Rotate(m1, m2.col[1]), Rotate(m1, m2.col[2]), Rotate(m1, m2.col[3])>>,
     translation |-> MatVec(m1, m2.translation)]

\* mathutils.geometry.intersect_point_line: the point of the line closest
\* to pt and its parameter along line_p1 -> line_p2 (line_p1 # line_p2)
intersect_point_line(pt, line_p1, line_p2) ==
    LET u == VSub(line_p2, line_p1)
        lambda == RDiv(Dot(u, VSub(pt, line_p1)), Dot(u, u))
    IN  <<VAdd(line_p1, VScale(lambda, u)), lambda>>


\* a raised exception carries the source line of the failing expression
Raised(ln) == [exc |-> ZeroDivisionError, line |-> ln, value |-> <<Zero, Zero>>]
Returned(v) == [exc |-> "None", line |-> 0, value |-> v]

(***************************************************************************)
(* Input domains                                                           *)
(***************************************************************************)
MaxFStopStep == 1
MaxHyperTick == 2
MaxSmallTick == 3

\* camera_data.lens in mm
Lenses == {Num(1), Num(50)}
\* camera_data.dof.aperture_fstop: 50, 100 and 5, 2.5, ... halving
FStops == {Num(50), Num(100)} \cup {Rat(5, 2^k) : k \in 0..MaxFStopStep}
\* (sensor_width, sensor_height) in mm with an integral diagonal
Sensors == {<<Num(24), Num(18)>>}
ClipStart == Rat(1, 10)
ClipEnds == {Num(40), Num(100)}
\* focus distances in m: on a 5 mm grid, 50.03 .. 50.05, and sub-mm
Distances ==
    {Rat(k, 200) : k \in {0, 2, 10, 200, 600, 6000, 10000, 12000, 30000}}
        \cup {Rat(5003 + k, 100) : k \in 0..MaxHyperTick}
        \cup {Rat(k, 2000) : k \in 1..MaxSmallTick}

CameraData ==
    {[lens |-> l, sensor_width |-> s[1], sensor_height |-> s[2],
      clip_start |-> ClipStart, clip_end |-> ce,
      dof |-> [aperture_fstop |-> n, focus_distance |-> Num(10),
               focus_object |-> None]] :
        l \in Lenses, s \in Sensors, ce \in ClipEnds, n \in FStops}

(***************************************************************************)
(* Helper (src/dof-utils.py 137-178)                                       *)
(***************************************************************************)
fstops(camera_data, magnification) == camera_data.dof.aperture_fstop

\* f = camera_data.lens / 1000 * magnification
focal_length(camera_data, magnification) ==
    RMul(RDiv(camera_data.lens, Num(1000)), magnification)

\* c = math.sqrt(sensor_width**2 + sensor_height**2) / 1500
circle_of_confusion(camera_data) ==
    RDiv(Sqrt(RAdd(RMul(camera_data.sensor_width, camera_data.sensor_width),
                   RMul(camera_data.sensor_height, camera_data.sensor_height))),
         Num(1500))

\* mutant: the f-number divides the circle of confusion instead of scaling it
hyperfocal_divisor_inverted(camera_data, magnification) ==
    RDiv(RMul(RDiv(circle_of_confusion(camera_data),
                   fstops(camera_data, magnification)), magnification),
         Num(1000))

\* the divisor of a: N * c * magnification / 1000
hyperfocal_divisor(camera_data, magnification) ==
    RDiv(RMul(RMul(fstops(camera_data, magnification),
                   circle_of_confusion(camera_data)), magnification),
         Num(1000))

\* a = math.pow(f, 2) / (N * c * magnification / 1000), divisor # 0
hyperfocal_a(camera_data, magnification) ==
    LET f == focal_length(camera_data, magnification)
    IN  RDiv(RMul(f, f), hyperfocal_divisor(camera_data, magnification))

\* the divisor of nL: a + (dof_distance - f)
near_divisor(a, f, dof_distance) == RAdd(a, RSub(dof_distance, f))

\* mutant: 0.01 >= (H - dof_distance)
far_saturates_inclusive(H, dof_distance) == RLe(RSub(H, dof_distance), Rat(1, 100))

\* the test of line 171: 0.01 > (H - dof_distance)
far_saturates(H, dof_distance) == RLt(RSub(H, dof_distance), Rat(1, 100))

\* the divisor of fL: a - (dof_distance - f)
far_divisor(a, f, dof_distance) == RSub(a, RSub(dof_distance, f))

\* mutant: (a + dof_distance) / (a + (dof_distance - f))
near_limit_sum(a, f, dof_distance) ==
    RDiv(RAdd(a, dof_distance), near_divisor(a, f, dof_distance))

\* nL = (a * dof_distance) / (a + (dof_distance - f)), divisor # 0
near_limit(a, f, dof_distance) ==
    RDiv(RMul(a, dof_distance), near_divisor(a, f, dof_distance))

\* fL = (a * dof_distance) / (a - (dof_distance - f)), divisor # 0
far_limit(a, f, dof_distance) ==
    RDiv(RMul(a, dof_distance), far_divisor(a, f, dof_distance))

dof_calculation(camera_data, dof_distance, magnification) ==
    IF IsZero(hyperfocal_divisor(camera_data, magnification)) THEN Raised(166)
    ELSE
    LET f == focal_length(camera_data, magnification)
        a == hyperfocal_a(camera_data, magnification)
        H == RAdd(a, f)
    IN  IF IsZero(near_divisor(a, f, dof_distance)) THEN Raised(170)
        ELSE
        LET nL == near_limit(a, f, dof_distance)
        IN  IF far_saturates(H, dof_distance)
            THEN Returned(<<nL, camera_data.clip_end>>)
            ELSE IF IsZero(far_divisor(a, f, dof_distance)) THEN Raised(174)
            ELSE Returned(<<nL, far_limit(a, f, dof_distance)>>)

(***************************************************************************)
(* The scene                                                               *)
(***************************************************************************)
Objects == {"Camera", "Camera.001", "Cube", "Empty"}
obj_type(obj) ==
    CASE obj \in {"Camera", "Camera.001"} -> "CAMERA"
      [] obj = "Cube" -> "MESH"
      [] OTHER -> "EMPTY"

\* mutant: any object counts, the type is not looked at
is_camera_any(obj) == obj # None

is_camera(obj) == obj # None /\ obj_type(obj) = "CAMERA"

\* mutant: the scene camera is preferred to the active object
select_camera_scene_first(active, scene_camera) ==
    IF is_camera(scene_camera) THEN scene_camera
    ELSE IF is_camera(active) THEN active
    ELSE None

\* lines 190-195: the active object, else the scene camera, else return
select_camera(active, scene_camera) ==
    IF is_camera(active) THEN active
    ELSE IF is_camera(scene_camera) THEN scene_camera
    ELSE None

\* focus distances of the active camera in the scene
FocusDistances == {Rat(1, 20), Num(3), Num(40), Num(60)}
\* world positions of the focus object
TargetPoints ==
    {Vector(Zero, Zero, Num(-5)), Vector(Num(3), Zero, Num(-5)),
     Vector(Zero, Zero, Num(2)), Vector(Zero, Zero, Rat(-1, 20))}
\* world matrices of the active camera: at the origin looking down -Z;
\* scaled by 2, looking along +Y; tilted by the 3-4-5 angle about X
CameraPoses ==
    {Identity,
     Matrix(Vector(Num(2), Zero, Zero), Vector(Zero, Zero, Num(2)),
            Vector(Zero, Num(-2), Zero), Vector(Zero, Num(-4), Zero)),
     Matrix(Vector(Num(1), Zero, Zero), Vector(Zero, Rat(4, 5), Rat(3, 5)),
            Vector(Zero, Rat(-3, 5), Rat(4, 5)), Vector(Num(1), Zero, Num(2)))}

\* the datablock of "Camera": 50 mm, f/2.5, 24x18 mm, clip 0.1 .. 100
CameraDatablock(d, target) ==
    [lens |-> Num(50), sensor_width |-> Num(24), sensor_height |-> Num(18),
     clip_start |-> ClipStart, clip_end |-> Num(100),
     dof |-> [aperture_fstop |-> Rat(5, 2), focus_distance |-> d,
              focus_object |-> target]]
\* the datablock of "Camera.001": 50 mm, f/5, clip 0.5 .. 40, focus at 3
Camera001Datablock ==
    [lens |-> Num(50), sensor_width |-> Num(24), sensor_height |-> Num(18),
     clip_start |-> Rat(1, 2), clip_end |-> Num(40),
     dof |-> [aperture_fstop |-> Num(5), focus_distance |-> Num(3),
              focus_object |-> None]]
\* the same camera stopped down to a 1 mm, f/50 lens focused at 0
PinholeDatablock ==
    [Camera001Datablock EXCEPT !.lens = Num(1), !.dof.aperture_fstop = Num(50),
                               !.dof.focus_distance = Zero]

(***************************************************************************)
(* OpenGL callbacks (src/dof-utils.py 185-389)                             *)
(***************************************************************************)
\* lines 199-204: nmat @ smat with target_scale (1, 1, 1)
temp_matrix_of(mat) == MatMat(normalized(mat), Identity)

\* mutant: the distance is measured from the camera position, not from start
focus_object_distance_from_camera(cam, temp_matrix, pt) ==
    LET loc == intersect_point_line(pt, temp_matrix.translation,
                                    MatVec(temp_matrix, Vector(Zero, Zero, Num(-1))))
    IN  RAdd(Length(VSub(loc[1], temp_matrix.translation)), cam.clip_start)

\* lines 206, 216-218: d = (loc[0] - start).length + cam.clip_start
focus_object_distance(cam, temp_matrix, pt) ==
    LET start == MatVec(temp_matrix, Vector(Zero, Zero, Neg(cam.clip_start)))
        loc == intersect_point_line(pt, temp_matrix.translation,
                                    MatVec(temp_matrix, Vector(Zero, Zero, Num(-1))))
    IN  RAdd(Length(VSub(loc[1], start)), cam.clip_start)

\* a batch of one LINE_STRIP in one colour
Batch(vertices, color) == [type |-> "LINE_STRIP", pos |-> vertices, color |-> color]

\* lines 240-246: line(color, start, end)
line(color, start, end) == Batch(<<start, end>>, color)

\* lines 306-317: draw_poly(coords, color, width)
draw_poly(coords, color, width) == Batch(coords, color)

\* lines 321-324: draw_line_3d(start, end), colour defaulted to opaque black
draw_line_3d(start, end) ==
    draw_poly(<<start, end>>, <<Zero, Zero, Zero, Num(1)>>, 1)

\* the offset along the Z axis: translate['Z']
translate_Z(offset) == Vector(Zero, Zero, offset)

\* lines 344-357: draw_empty_2d(matrix, size, offset): four strokes from
\* the origin of the marker along +x, -x, +y, -y
draw_empty_2d(matrix, size, offset) ==
    LET vector_list == <<Vector(size, Zero, Zero), Vector(Neg(size), Zero, Zero),
                         Vector(Zero, size, Zero), Vector(Zero, Neg(size), Zero)>>
        origin == MatVec(matrix, translate_Z(offset))
    IN  [i \in 1..4 |->
            draw_line_3d(origin, MatVec(matrix, VAdd(vector_list[i], translate_Z(offset))))]

\* math.cos and math.sin of 2*pi/num_segments, where they are rational
cos_theta(num_segments) == CASE num_segments = 4 -> Zero
sin_theta(num_segments) == CASE num_segments = 4 -> Num(1)

\* a variant of the loop of lines 368-373 over range(num_segments): the
\* vertex that closes the circle is left out
RECURSIVE vertex_loop_open(_, _, _, _, _, _)
vertex_loop_open(x, y, c, s, i, num_segments) ==
    IF i >= num_segments THEN <<>>
    ELSE <<Vector(x, y, Zero)>>
             \o vertex_loop_open(RSub(RMul(c, x), RMul(s, y)),
                                 RAdd(RMul(s, x), RMul(c, y)), c, s, i + 1,
                                 num_segments)

\* lines 368-373: the vertices appended from step i on, (x, y) being the next
RECURSIVE vertex_loop(_, _, _, _, _, _)
vertex_loop(x, y, c, s, i, num_segments) ==
    IF i > num_segments THEN <<>>
    ELSE <<Vector(x, y, Zero)>>
             \o vertex_loop(RSub(RMul(c, x), RMul(s, y)),
                            RAdd(RMul(s, x), RMul(c, y)), c, s, i + 1, num_segments)

\* lines 360-389: draw_circle(matrix, radius, num_segments, offset, color)
draw_circle(matrix, radius, num_segments, offset, color) ==
    LET vector_list == vertex_loop(radius, Zero, cos_theta(num_segments),
                                   sin_theta(num_segments), 0, num_segments)
    IN  draw_poly([i \in 1..Len(vector_list) |->
                      MatVec(matrix, VAdd(vector_list[i], translate_Z(offset)))],
                  color, 1)

(***************************************************************************)
(* State                                                                   *)
(***************************************************************************)
VARIABLES
    camera_data,     \* the camera datablock handed to dof_calculation
    dof_distance,    \* the focus distance handed to dof_calculation
    result,          \* what the call returned or raised
    previous,        \* the call before it: [valid, camera_data, dof_distance, result]
    context_object,  \* context.object: the active object or None
    scn_camera,      \* context.scene.camera: an object or None
    cameras,         \* the datablock of every camera object
    matrix_world,    \* the world matrix of every object
    dofu,            \* context.scene.dof_utils (DOFU_PG_settings)
    draw_handlers,   \* the callbacks registered with SpaceView3D: [id, callback]
    gpu_state,       \* gpu.state: blend, depth_test, line_width
    batches,         \* the batches drawn by the latest run of draw_callback_3d
    cb,              \* the locals of that run: cam_ob, d, and what it raised
    cursor_location, \* context.scene.cursor.location
    prefs,           \* DOFU_AP_preferences: display_info, display_limits
    visualize_handle,    \* DOFU_PG_settings._visualize_handle: a handle or None
    instructions_handle, \* DOFU_PG_settings._instructions_handle: a handle or None
    modal_handlers,  \* the running modal operators, oldest first: [op, tool]
    active_tool,     \* the idname of the active tool of the 3D viewport
    header_text,     \* the numbers of the text set on the header of the area
    registered       \* the classes of the add-on are registered

opticsVars == <<camera_data, dof_distance, result, previous>>
sceneVars == <<context_object, scn_camera, cameras, matrix_world>>
drawVars == <<gpu_state, batches, cb>>
handleVars == <<visualize_handle, instructions_handle>>
uiVars == <<cursor_location, prefs, handleVars, modal_handlers, active_tool,
            header_text, registered>>

call == [valid |-> TRUE, camera_data |-> camera_data,
         dof_distance |-> dof_distance, result |-> result]

\* DOFU_PG_settings as registered (lines 65-124); segments_limits is held
\* at 4, the one value of 3..32 whose cos and sin of 2*pi/n are rational
Settings(overlay, size_limits, draw_focus) ==
    [use_cursor |-> FALSE, draw_dof |-> FALSE, overlay |-> overlay,
     size_limits |-> size_limits, fill_limits |-> FALSE, draw_focus |-> draw_focus,
     color_limits |-> <<Zero, Num(1), Zero>>, segments_limits |-> 4,
     opacity_limits |-> Rat(9, 10), limits |-> <<Zero, Zero, Zero>>]
DefaultSettings == Settings(TRUE, Rat(1, 10), FALSE)

\* gpu.state before any callback ran
DefaultGpuState == [blend |-> "NONE", depth_test |-> "NONE", line_width |-> Num(1)]
\* no run of the callback yet; a run that returns at line 195 has no locals
NoRun == [called |-> FALSE, cam_ob |-> None, d |-> Zero, exc |-> None]

\* the default scene: the camera datablocks and objects at rest
DefaultCameras ==
    [o \in {"Camera", "Camera.001"} |->
        IF o = "Camera" THEN CameraDatablock(Num(10), None) ELSE Camera001Datablock]
WorldMatrices(pose, target) ==
    [o \in Objects |->
        CASE o = "Camera" -> pose
          [] o = "Camera.001" ->
                [Identity EXCEPT !.translation = Vector(Num(10), Zero, Zero)]
          [] o = "Empty" -> [Identity EXCEPT !.translation = target]
          [] OTHER -> Identity]

\* header_text_set(text=None): the header shows no text of the add-on
NoText == <<>>
\* lines 46-54: the preferences as registered
DefaultPreferences == [display_info |-> TRUE, display_limits |-> TRUE]

\* the add-on is registered and no operator has been called
UiAtRest ==
    /\ cursor_location = Vector(Zero, Zero, Zero)
    /\ prefs = DefaultPreferences
    /\ visualize_handle = None
    /\ instructions_handle = None
    /\ modal_handlers = <<>>
    /\ active_tool = "builtin.select_box"
    /\ header_text = NoText
    /\ registered = TRUE

\* nothing of the add-on is running: the state in which the optics are probed
AddonAtRest ==
    /\ context_object = None
    /\ scn_camera = None
    /\ cameras = DefaultCameras
    /\ matrix_world = WorldMatrices(Identity, Vector(Zero, Zero, Num(-5)))
    /\ dofu = DefaultSettings
    /\ draw_handlers = {}
    /\ gpu_state = DefaultGpuState
    /\ batches = <<>>
    /\ cb = NoRun
    /\ UiAtRest

InitOptics ==
    /\ AddonAtRest
    /\ camera_data \in CameraData
    /\ dof_distance \in Distances
    /\ result = dof_calculation(camera_data, dof_distance, Num(1))
    /\ previous = [valid |-> FALSE, camera_data |-> camera_data,
                   dof_distance |-> dof_distance, result |-> result]

\* the focus distance is edited and the limits are recomputed
SetFocusDistance(d) ==
    /\ d # dof_distance
    /\ dof_distance' = d
    /\ result' = dof_calculation(camera_data, d, Num(1))
    /\ previous' = call
    /\ UNCHANGED <<camera_data, sceneVars, dofu, draw_handlers, drawVars, uiVars>>

\* the f-stop is edited and the limits are recomputed
SetFStop(n) ==
    /\ n # camera_data.dof.aperture_fstop
    /\ camera_data' = [camera_data EXCEPT !.dof.aperture_fstop = n]
    /\ result' = dof_calculation(camera_data', dof_distance, Num(1))
    /\ previous' = call
    /\ UNCHANGED <<dof_distance, sceneVars, dofu, draw_handlers, drawVars, uiVars>>

vars == <<opticsVars, sceneVars, dofu, draw_handlers, drawVars, uiVars>>

(***************************************************************************)
(* draw_callback_3d, run by the viewport for its registered handler        *)
(***************************************************************************)
\* lines 240-256: the three lines along the view axis
clip_lines(settings, start, end, dof_loc, dof_loc_end) ==
    <<line(<<Num(1), Num(1), Num(1), Rat(1, 10)>>, dof_loc_end, end),
      line(<<Num(1), Num(1), Num(1), Rat(1, 10)>>, dof_loc, start),
      line(<<settings.color_limits[1], settings.color_limits[2],
             settings.color_limits[3], settings.opacity_limits>>,
           dof_loc_end, dof_loc)>>

\* lines 258-267: a circle at the near and at the far limit
limit_circles(settings, temp_matrix, near, far) ==
    IF RLt(Zero, settings.size_limits)
    THEN [i \in 1..2 |->
            draw_circle(temp_matrix, settings.size_limits, settings.segments_limits,
                        Neg(<<near, far>>[i]),
                        <<settings.color_limits[1], settings.color_limits[2],
                          settings.color_limits[3], settings.opacity_limits>>)]
    ELSE <<>>

\* lines 269-274: the focus marker
focus_marker(settings, temp_matrix, d) ==
    IF settings.draw_focus
    THEN draw_empty_2d(temp_matrix, RMul(settings.size_limits, Rat(17, 10)), Neg(d))
    ELSE <<>>

draw_callback_3d ==
    /\ registered
    /\ \E h \in draw_handlers : h.callback = "draw_callback_3d"
    /\ LET cam_ob == select_camera(context_object, scn_camera)
       IN  IF cam_ob = None
           THEN /\ cb' = [NoRun EXCEPT !.called = TRUE]
                /\ batches' = <<>>
                /\ UNCHANGED <<dofu, gpu_state>>
           ELSE
           LET cam == cameras[cam_ob]
           IN
           \E temp_matrix \in {temp_matrix_of(matrix_world[cam_ob])} :
           \E d \in {IF cam.dof.focus_object = None
                     THEN cam.dof.focus_distance
                     ELSE focus_object_distance(cam, temp_matrix,
                              matrix_world[cam.dof.focus_object].translation)} :
           \E limits \in {dof_calculation(cam, d, Num(1))} :
               IF limits.exc # None
               THEN \* the exception leaves the callback before line 224
                    /\ cb' = [called |-> TRUE, cam_ob |-> cam_ob, d |-> d,
                              exc |-> limits.exc]
                    /\ batches' = <<>>
                    /\ UNCHANGED <<dofu, gpu_state>>
               ELSE
               LET near == limits.value[1]
                   far == limits.value[2]
                   start == MatVec(temp_matrix, Vector(Zero, Zero, Neg(cam.clip_start)))
                   end == MatVec(temp_matrix, Vector(Zero, Zero, Neg(cam.clip_end)))
                   dof_loc == MatVec(temp_matrix, Vector(Zero, Zero, Neg(near)))
                   dof_loc_end == MatVec(temp_matrix, Vector(Zero, Zero, Neg(far)))
               IN  /\ cb' = [called |-> TRUE, cam_ob |-> cam_ob, d |-> d, exc |-> None]
                   /\ dofu' = [dofu EXCEPT !.limits = <<d, near, far>>]
                   /\ batches' = clip_lines(dofu, start, end, dof_loc, dof_loc_end)
                                    \o limit_circles(dofu, temp_matrix, near, far)
                                    \o focus_marker(dofu, temp_matrix, d)
                   /\ gpu_state' = [blend |-> "NONE",
                                    depth_test |-> IF dofu.overlay THEN "NONE" ELSE "LESS",
                                    line_width |-> Num(1)]
    /\ UNCHANGED <<opticsVars, sceneVars, draw_handlers, uiVars>>

\* lines 293-304: draw_callback_2d, run for its registered handler, draws
\* "Hit ESC or RMB when done" and changes nothing of the add-on
draw_callback_2d ==
    /\ registered
    /\ \E h \in draw_handlers : h.callback = "draw_callback_2d"
    /\ UNCHANGED <<opticsVars, sceneVars, dofu, draw_handlers, drawVars,
                   cursor_location, prefs, handleVars, modal_handlers, active_tool,
                   header_text, registered>>

\* the user makes another object (or none) the active one
SelectObject(obj) ==
    /\ obj # context_object
    /\ context_object' = obj
    /\ UNCHANGED <<opticsVars, scn_camera, cameras, matrix_world, dofu,
                   draw_handlers, drawVars, uiVars>>

\* the user sets another scene camera (or none)
SetSceneCamera(obj) ==
    /\ obj # scn_camera
    /\ scn_camera' = obj
    /\ UNCHANGED <<opticsVars, context_object, cameras, matrix_world, dofu,
                   draw_handlers, drawVars, uiVars>>

\* the visualization runs in a scene drawn from the bounded sets
InitDraw ==
    /\ camera_data = CameraDatablock(Num(10), None)
    /\ dof_distance = Num(10)
    /\ result = dof_calculation(camera_data, dof_distance, Num(1))
    /\ previous = [valid |-> FALSE, camera_data |-> camera_data,
                   dof_distance |-> dof_distance, result |-> result]
    /\ context_object = "Camera"
    /\ scn_camera = "Camera.001"
    /\ \E pose \in CameraPoses, second \in {Camera001Datablock, PinholeDatablock} :
         \/ \E d \in FocusDistances :
              /\ cameras = [DefaultCameras EXCEPT !["Camera"] = CameraDatablock(d, None),
                                                  !["Camera.001"] = second]
              /\ matrix_world = WorldMatrices(pose, Vector(Zero, Zero, Num(-5)))
         \/ \E pt \in TargetPoints :
              /\ cameras = [DefaultCameras EXCEPT
                              !["Camera"] = CameraDatablock(Num(10), "Empty"),
                              !["Camera.001"] = second]
              /\ matrix_world = WorldMatrices(pose, pt)
    /\ \E overlay \in BOOLEAN, size \in {Zero, Rat(1, 10)}, focus \in BOOLEAN :
         dofu = [Settings(overlay, size, focus) EXCEPT !.draw_dof = TRUE]
    /\ draw_handlers = {[id |-> "1", callback |-> "draw_callback_3d"],
                        [id |-> "2", callback |-> "draw_callback_2d"]}
    /\ gpu_state = DefaultGpuState
    /\ batches = <<>>
    /\ cb = NoRun
    /\ cursor_location = Vector(Zero, Zero, Zero)
    /\ prefs = DefaultPreferences
    /\ visualize_handle = "1"
    /\ instructions_handle = "2"
    /\ modal_handlers = <<[op |-> "dof_utils.visualize_dof", tool |-> None]>>
    /\ active_tool = "builtin.select_box"
    /\ header_text = NoText
    /\ registered = TRUE

NextDraw ==
    \/ draw_callback_3d
    \/ draw_callback_2d
    \/ \E obj \in {None, "Camera", "Cube"} : SelectObject(obj)
    \/ \E obj \in {None, "Camera.001", "Cube"} : SetSceneCamera(obj)

SpecDraw == InitDraw /\ [][NextDraw]_vars

(***************************************************************************)
(* Operators (src/dof-utils.py 396-604) and registration (717-734)         *)
(***************************************************************************)
MaxHandlers == 2
MaxModal == 2

\* context.area.type at the call of an operator
Areas == {"VIEW_3D", "PROPERTIES"}
\* the events handed to a running modal operator
Events ==
    {[type |-> "LEFTMOUSE", value |-> v] : v \in {"PRESS", "RELEASE"}}
        \cup {[type |-> t, value |-> "PRESS"] : t \in {"RIGHTMOUSE", "ESC"}}
        \cup {[type |-> "MOUSEMOVE", value |-> "NOTHING"]}
\* positions of the 3D cursor
CursorLocations ==
    {Vector(Zero, Zero, Zero), Vector(Zero, Zero, Num(-5)),
     Vector(Num(3), Zero, Num(-5))}

\* lines 133-135: the length of apex - base with the height of the apex
\* replaced by that of the base
distance(pt1, pt2) ==
    LET pt_apex == IF RLt(pt1[3], pt2[3]) THEN pt2 ELSE pt1
        pt_base == IF RLt(pt1[3], pt2[3]) THEN pt1 ELSE pt2
    IN  Length(VSub(Vector(pt_apex[1], pt_apex[2], pt_base[3]), pt_base))

\* "%.3f" % x as a number: x rounded to thousandths, ties to even
format_3f(x) ==
    LET scaled == RMul(x, Num(1000))
        floor == scaled[1] \div scaled[2]
        twice == 2 * (scaled[1] % scaled[2])
        up == twice > scaled[2] \/ (twice = scaled[2] /\ floor % 2 = 1)
    IN  Rat(IF up THEN floor + 1 ELSE floor, 1000)

\* line 506: the three numbers of the header text made of dofu.limits
limits_text(limits) ==
    <<format_3f(limits[1]), format_3f(limits[2]), format_3f(limits[3])>>

\* SpaceView3D.draw_handler_add: a handle that no registered handler has
\* and that neither class attribute holds
new_handle(handlers) ==
    LET used == {h.id : h \in handlers} \cup {visualize_handle, instructions_handle}
        free == {n \in 1..(MaxHandlers + 2) : ToString(n) \notin used}
    IN  ToString(CHOOSE n \in free : \A other \in free : n <= other)
draw_handler_add(handlers, id, callback) ==
    handlers \cup {[id |-> id, callback |-> callback]}
\* SpaceView3D.draw_handler_remove raises for None and for a removed handle
removable(handlers, handle) == \E h \in handlers : h.id = handle
draw_handler_remove(handlers, handle) == {h \in handlers : h.id # handle}

\* window_manager.modal_handler_add and the end of a modal operator
modal_handler_add(op, tool) == Append(modal_handlers, [op |-> op, tool |-> tool])
modal_handler_end(i) ==
    SubSeq(modal_handlers, 1, i - 1)
        \o SubSeq(modal_handlers, i + 1, Len(modal_handlers))

\* mutant: the flag of the operator is not looked at
never_running(flag) == FALSE

\* lines 455 and 523: the flag of the operator is set
already_running(flag) == flag

\* lines 451-474: DOFU_OT_focusPicking.invoke, called where poll() allows
focusPicking_invoke(area) ==
    LET op == "dof_utils.focus_picking"
        add == prefs.display_info /\ instructions_handle = None
        handle == new_handle(draw_handlers)
    IN  /\ registered
        /\ is_camera(context_object)
        /\ IF ~already_running(dofu.use_cursor)
           THEN IF area = "VIEW_3D"
                THEN /\ Len(modal_handlers) < MaxModal
                     /\ add => Cardinality(draw_handlers) < MaxHandlers
                     /\ instructions_handle' =
                            IF add THEN handle ELSE instructions_handle
                     /\ draw_handlers' =
                            IF add
                            THEN draw_handler_add(draw_handlers, handle, "draw_callback_2d")
                            ELSE draw_handlers
                     /\ modal_handlers' = modal_handler_add(op, active_tool)
                     /\ dofu' = [dofu EXCEPT !.use_cursor = TRUE]
                ELSE \* "View3D not found, cannot run operator", CANCELLED
                     UNCHANGED <<instructions_handle, draw_handlers,
                                    modal_handlers, dofu>>
           ELSE \* "Operator is already running", CANCELLED
                UNCHANGED <<instructions_handle, draw_handlers, modal_handlers, dofu>>
        /\ UNCHANGED <<opticsVars, sceneVars, drawVars, cursor_location, prefs,
                       visualize_handle, active_tool, header_text, registered>>

\* lines 414-449: DOFU_OT_focusPicking.modal of the i-th running operator;
\* tool_ok: wm.tool_set_by_id works in the context of the event
focusPicking_modal(i, event, tool_ok) ==
    LET op == "dof_utils.focus_picking"
        self == modal_handlers[i]
    IN  /\ registered
        /\ i \in 1..Len(modal_handlers)
        /\ self.op = op
        /\ IF ~tool_ok
           THEN \* lines 426-429
                IF removable(draw_handlers, instructions_handle)
                THEN /\ draw_handlers' =
                            draw_handler_remove(draw_handlers, instructions_handle)
                     /\ instructions_handle' = None
                     /\ dofu' = [dofu EXCEPT !.use_cursor = FALSE]
                     /\ modal_handlers' = modal_handler_end(i)
                     /\ UNCHANGED <<cameras, active_tool>>
                ELSE \* draw_handler_remove raises in the except clause
                     /\ modal_handlers' = modal_handler_end(i)
                     /\ UNCHANGED <<draw_handlers, instructions_handle, dofu,
                                    cameras, active_tool>>
           ELSE IF event.type = "LEFTMOUSE"
           THEN \* lines 431-435
                IF event.value = "RELEASE" /\ ~is_camera(context_object)
                THEN \* context.object.data.dof on None or on a mesh
                     /\ active_tool' = "builtin.cursor"
                     /\ modal_handlers' = modal_handler_end(i)
                     /\ UNCHANGED <<draw_handlers, instructions_handle, dofu, cameras>>
                ELSE /\ active_tool' = "builtin.cursor"
                     /\ cameras' =
                          IF event.value = "RELEASE"
                          THEN [cameras EXCEPT ![context_object].dof.focus_distance =
                                   distance(cursor_location,
                                            matrix_world[context_object].translation)]
                          ELSE cameras
                     /\ UNCHANGED <<draw_handlers, instructions_handle, dofu,
                                    modal_handlers>>
           ELSE IF event.type \in {"RIGHTMOUSE", "ESC"} \/ ~dofu.use_cursor
           THEN \* lines 437-447
                /\ dofu' = [dofu EXCEPT !.use_cursor = FALSE]
                /\ IF removable(draw_handlers, instructions_handle)
                   THEN /\ draw_handlers' =
                               draw_handler_remove(draw_handlers, instructions_handle)
                        /\ instructions_handle' = None
                   ELSE UNCHANGED <<draw_handlers, instructions_handle>>
                /\ active_tool' = self.tool
                /\ modal_handlers' = modal_handler_end(i)
                /\ UNCHANGED cameras
           ELSE /\ active_tool' = "builtin.cursor"
                /\ UNCHANGED <<draw_handlers, instructions_handle, dofu, cameras,
                               modal_handlers>>
        /\ UNCHANGED <<opticsVars, context_object, scn_camera, matrix_world, drawVars,
                       cursor_location, prefs, visualize_handle, header_text, registered>>

\* lines 519-542: DOFU_OT_visualizeLimits.invoke, called where poll() allows
visualizeLimits_invoke(area) ==
    LET op == "dof_utils.visualize_dof"
        handle == new_handle(draw_handlers)
        with_3d == draw_handler_add(draw_handlers, handle, "draw_callback_3d")
        add == prefs.display_info /\ instructions_handle = None
        handle_2d == new_handle(with_3d)
    IN  /\ registered
        /\ is_camera(context_object)
        /\ IF ~already_running(dofu.draw_dof)
           THEN IF area = "VIEW_3D"
                THEN /\ Len(modal_handlers) < MaxModal
                     /\ Cardinality(draw_handlers) + (IF add THEN 2 ELSE 1)
                            <= MaxHandlers
                     /\ visualize_handle' = handle
                     /\ instructions_handle' =
                            IF add THEN handle_2d ELSE instructions_handle
                     /\ draw_handlers' =
                            IF add
                            THEN draw_handler_add(with_3d, handle_2d, "draw_callback_2d")
                            ELSE with_3d
                     /\ modal_handlers' = modal_handler_add(op, None)
                     /\ dofu' = [dofu EXCEPT !.draw_dof = TRUE]
                ELSE \* "View3D not found, cannot run operator", CANCELLED
                     UNCHANGED <<handleVars, draw_handlers, modal_handlers, dofu>>
           ELSE \* "Operator is already running", CANCELLED
                UNCHANGED <<handleVars, draw_handlers, modal_handlers, dofu>>
        /\ UNCHANGED <<opticsVars, sceneVars, drawVars, cursor_location, prefs,
                       active_tool, header_text, registered>>

\* lines 493-517: DOFU_OT_visualizeLimits.modal of the i-th running
\* operator; area: context.area, None when the area is gone
visualizeLimits_modal(i, event, area) ==
    LET op == "dof_utils.visualize_dof"
        shown == IF prefs.display_limits /\ area # None
                 THEN limits_text(dofu.limits) ELSE header_text
        without_3d == draw_handler_remove(draw_handlers, visualize_handle)
    IN  /\ registered
        /\ i \in 1..Len(modal_handlers)
        /\ modal_handlers[i].op = op
        /\ IF event.type \in {"RIGHTMOUSE", "ESC"} \/ ~dofu.draw_dof
           THEN /\ dofu' = [dofu EXCEPT !.draw_dof = FALSE]
                /\ IF ~removable(draw_handlers, visualize_handle)
                   THEN \* the first removal raises
                        UNCHANGED <<draw_handlers, handleVars>>
                   ELSE IF ~removable(without_3d, instructions_handle)
                   THEN \* the second removal raises
                        /\ draw_handlers' = without_3d
                        /\ UNCHANGED handleVars
                   ELSE /\ draw_handlers' =
                               draw_handler_remove(without_3d, instructions_handle)
                        /\ instructions_handle' = None
                        /\ visualize_handle' = None
                /\ header_text' = IF area # None THEN NoText ELSE shown
                /\ modal_handlers' = modal_handler_end(i)
           ELSE /\ header_text' = shown
                /\ UNCHANGED <<dofu, draw_handlers, handleVars, modal_handlers>>
        /\ UNCHANGED <<opticsVars, sceneVars, drawVars, cursor_location, prefs,
                       active_tool, registered>>

\* lines 551-553: DOFU_OT_killVisualization.execute
killVisualization_execute ==
    /\ registered
    /\ dofu' = [dofu EXCEPT !.draw_dof = FALSE]
    /\ UNCHANGED <<opticsVars, sceneVars, draw_handlers, drawVars, cursor_location,
                   prefs, handleVars, modal_handlers, active_tool, header_text, registered>>

\* lines 562-564: DOFU_OT_killFocusPicking.execute
killFocusPicking_execute ==
    /\ registered
    /\ dofu' = [dofu EXCEPT !.use_cursor = FALSE]
    /\ UNCHANGED <<opticsVars, sceneVars, draw_handlers, drawVars, cursor_location,
                   prefs, handleVars, modal_handlers, active_tool, header_text, registered>>

\* lines 574-583: both attributes are set to None, then the removal of
\* None raises and the exception is passed over
viewportReset_execute ==
    /\ registered
    /\ instructions_handle' = None
    /\ visualize_handle' = None
    /\ UNCHANGED <<opticsVars, sceneVars, dofu, draw_handlers, drawVars,
                   cursor_location, prefs, modal_handlers, active_tool, header_text,
                   registered>>

\* lines 592-604: the properties go back to their defaults, then
\* dof_utils.reset_viewport runs
preferencesReset_execute ==
    /\ registered
    /\ prefs' = DefaultPreferences
    /\ dofu' = [dofu EXCEPT !.use_cursor = FALSE, !.draw_dof = FALSE,
                            !.overlay = TRUE, !.limits = <<Zero, Zero, Zero>>]
    /\ instructions_handle' = None
    /\ visualize_handle' = None
    /\ UNCHANGED <<opticsVars, sceneVars, draw_handlers, drawVars, cursor_location,
                   modal_handlers, active_tool, header_text, registered>>

\* lines 727-734: dof_utils.reset_preferences, then the classes go
unregister ==
    /\ registered
    /\ prefs' = DefaultPreferences
    /\ dofu' = [dofu EXCEPT !.use_cursor = FALSE, !.draw_dof = FALSE,
                            !.overlay = TRUE, !.limits = <<Zero, Zero, Zero>>]
    /\ instructions_handle' = None
    /\ visualize_handle' = None
    /\ registered' = FALSE
    /\ UNCHANGED <<opticsVars, sceneVars, draw_handlers, drawVars, cursor_location,
                   modal_handlers, active_tool, header_text>>

\* the user places the 3D cursor
MoveCursor(location) ==
    /\ location # cursor_location
    /\ cursor_location' = location
    /\ UNCHANGED <<opticsVars, sceneVars, dofu, draw_handlers, drawVars, prefs,
                   handleVars, modal_handlers, active_tool, header_text, registered>>

\* the add-on is registered, the camera at the origin looking down -Z, the
\* 3D cursor where the focus was picked last; the preferences are the
\* defaults or both switched off
Init ==
    /\ camera_data = CameraDatablock(Num(10), None)
    /\ dof_distance = Num(10)
    /\ result = dof_calculation(camera_data, dof_distance, Num(1))
    /\ previous = [valid |-> FALSE, camera_data |-> camera_data,
                   dof_distance |-> dof_distance, result |-> result]
    /\ context_object = "Camera"
    /\ scn_camera = "Camera.001"
    /\ cameras = [DefaultCameras EXCEPT !["Camera"] = CameraDatablock(Num(3), None)]
    /\ matrix_world = WorldMatrices(Identity, Vector(Zero, Zero, Num(-5)))
    /\ dofu = DefaultSettings
    /\ draw_handlers = {}
    /\ gpu_state = DefaultGpuState
    /\ batches = <<>>
    /\ cb = NoRun
    /\ cursor_location = Vector(Num(3), Zero, Num(-5))
    /\ prefs \in {DefaultPreferences,
                  [display_info |-> FALSE, display_limits |-> FALSE]}
    /\ visualize_handle = None
    /\ instructions_handle = None
    /\ modal_handlers = <<>>
    /\ active_tool = "builtin.select_box"
    /\ header_text = NoText
    /\ registered = TRUE

Next ==
    \/ \E area \in Areas : focusPicking_invoke(area)
    \/ \E i \in 1..MaxModal, event \in Events, tool_ok \in BOOLEAN :
         focusPicking_modal(i, event, tool_ok)
    \/ \E area \in Areas : visualizeLimits_invoke(area)
    \/ \E i \in 1..MaxModal, event \in Events, area \in {"VIEW_3D", None} :
         visualizeLimits_modal(i, event, area)
    \/ killVisualization_execute
    \/ killFocusPicking_execute
    \/ viewportReset_execute
    \/ preferencesReset_execute
    \/ unregister

Spec == Init /\ [][Next]_vars

\* focus picking alone, the camera in one of the poses, while the user
\* moves the 3D cursor and changes the active object
InitPick ==
    /\ camera_data = CameraDatablock(Num(10), None)
    /\ dof_distance = Num(10)
    /\ result = dof_calculation(camera_data, dof_distance, Num(1))
    /\ previous = [valid |-> FALSE, camera_data |-> camera_data,
                   dof_distance |-> dof_distance, result |-> result]
    /\ context_object = "Camera"
    /\ scn_camera = "Camera.001"
    /\ cameras = DefaultCameras
    /\ \E pose \in CameraPoses :
         matrix_world = WorldMatrices(pose, Vector(Zero, Zero, Num(-5)))
    /\ dofu = DefaultSettings
    /\ draw_handlers = {}
    /\ gpu_state = DefaultGpuState
    /\ batches = <<>>
    /\ cb = NoRun
    /\ UiAtRest

NextPick ==
    \/ \E area \in Areas : focusPicking_invoke(area)
    \/ \E i \in 1..MaxModal, event \in Events, tool_ok \in BOOLEAN :
         focusPicking_modal(i, event, tool_ok)
    \/ killFocusPicking_execute
    \/ \E location \in CursorLocations : MoveCursor(location)
    \/ \E obj \in {None, "Camera", "Cube"} : SelectObject(obj)

SpecPick == InitPick /\ [][NextPick]_vars

NextOptics ==
    \/ \E d \in Distances : SetFocusDistance(d)
    \/ \E n \in FStops : SetFStop(n)

SpecOptics == InitOptics /\ [][NextOptics]_vars


(***************************************************************************)
(* Properties of dof_calculation, checked under SpecOptics                 *)
(***************************************************************************)
returned == result.exc = "None"
nearLimit == result.value[1]
farLimit == result.value[2]
focal == RDiv(camera_data.lens, Num(1000))
\* a = f^2 / (N * c) with the circle of confusion c in metres
claimed_c ==
    RDiv(Sqrt(RAdd(RMul(camera_data.sensor_width, camera_data.sensor_width),
                   RMul(camera_data.sensor_height, camera_data.sensor_height))),
         Num(1500000))
claimed_a == RDiv(RMul(focal, focal), RMul(camera_data.dof.aperture_fstop, claimed_c))
claimed_H == RAdd(claimed_a, focal)

\* C1 (as claimed): for a focus distance d > 0 the returned pair satisfies
\* 0 <= nearLimit <= d <= farLimit, the saturated case included.
C1_LimitsOrdered ==
    (returned /\ RLt(Zero, dof_distance)) =>
        /\ RLe(Zero, nearLimit)
        /\ RLe(nearLimit, dof_distance)
        /\ RLe(dof_distance, farLimit)

\* C2: the far limit follows the saturation rule exactly: clip_end when
\* H - d < 0.01, otherwise a*d / (a - (d - f)); it is never negative and the
\* division of line 174 never fails.
C2_FarLimitRule ==
    /\ result.line # 174
    /\ returned =>
        /\ RLe(Zero, farLimit)
        /\ IF RLt(RSub(claimed_H, dof_distance), Rat(1, 100))
           THEN farLimit = camera_data.clip_end
           ELSE /\ ~IsZero(RSub(claimed_a, RSub(dof_distance, focal)))
                /\ farLimit = RDiv(RMul(claimed_a, dof_distance),
                                   RSub(claimed_a, RSub(dof_distance, focal)))

\* C2 witness: a focus edit crosses the threshold: the call before was at
\* H - d = 0.01 exactly (not saturated) and this one saturates to clip_end.
C2_Witness ==
    /\ returned /\ previous.valid /\ previous.camera_data = camera_data
    /\ RSub(claimed_H, previous.dof_distance) = Rat(1, 100)
    /\ previous.result.value[2] # camera_data.clip_end
    /\ RLt(RSub(claimed_H, dof_distance), Rat(1, 100))
    /\ farLimit = camera_data.clip_end

\* C3 (as claimed): for focal length > 0, f-stop > 0 and d >= 0 the call
\* never raises.
C3_NeverRaises == returned


\* the call before this one, for the same camera and a smaller focus distance
\* below the hyperfocal distance
closer_before ==
    /\ previous.valid /\ previous.camera_data = camera_data
    /\ RLt(Zero, previous.dof_distance)
    /\ RLt(previous.dof_distance, dof_distance)
    /\ RLt(dof_distance, claimed_H)

\* C8 (as claimed): for fixed intrinsics nearLimit is strictly increasing in
\* the focus distance over 0 < d < H.
C8_NearLimitIncreasing ==
    (closer_before /\ returned /\ previous.result.exc = "None") =>
        RLt(previous.result.value[1], nearLimit)

\* C8 (amended): provided a > f (the hyperfocal distance exceeds twice the
\* focal length), both calls return and nearLimit is strictly increasing in
\* the focus distance over 0 < d < H.
C8_NearLimitIncreasingAboveFocal ==
    (closer_before /\ RLt(focal, claimed_a)) =>
        /\ returned /\ previous.result.exc = "None"
        /\ RLt(previous.result.value[1], nearLimit)

\* C8 witness: two calls for one camera with a > f and 0 < d1 < d2 < H
C8_Witness ==
    /\ closer_before /\ RLt(focal, claimed_a) /\ returned
    /\ RLt(previous.result.value[1], nearLimit)

\* the call before this one, for the same focus distance and a camera that
\* differs only by a smaller f-stop
wider_before ==
    /\ previous.valid /\ previous.dof_distance = dof_distance
    /\ previous.camera_data =
         [camera_data EXCEPT !.dof.aperture_fstop = previous.camera_data.dof.aperture_fstop]
    /\ RLt(previous.camera_data.dof.aperture_fstop, camera_data.dof.aperture_fstop)

depth_of_field(r) == RSub(r.value[2], r.value[1])

\* a and H of the call before
previous_a ==
    RDiv(RMul(focal, focal), RMul(previous.camera_data.dof.aperture_fstop, claimed_c))
previous_H == RAdd(previous_a, focal)
saturated == RLt(RSub(claimed_H, dof_distance), Rat(1, 100))
previous_saturated == RLt(RSub(previous_H, dof_distance), Rat(1, 100))

\* C9 (as claimed, for a focus distance beyond the focal length): with
\* everything else fixed, the smaller f-stop gives the smaller
\* farLimit - nearLimit, also when one call is saturated.
C9_SmallerFStopNarrower ==
    (wider_before /\ RLt(focal, dof_distance)
        /\ returned /\ previous.result.exc = "None") =>
        RLt(depth_of_field(previous.result), depth_of_field(result))

\* C9 (amended): for a focus distance beyond the focal length and two calls
\* that take the same far-limit branch (both saturated or both not), both
\* return and the smaller f-stop gives the smaller farLimit - nearLimit:
\* its near limit is larger and its far limit is not larger (equal when
\* both are clip_end, smaller otherwise).
C9_SmallerFStopNarrowerSameBranch ==
    (wider_before /\ RLt(focal, dof_distance) /\ saturated = previous_saturated) =>
        /\ returned /\ previous.result.exc = "None"
        /\ RLt(nearLimit, previous.result.value[1])
        /\ IF saturated THEN previous.result.value[2] = farLimit
                        ELSE RLt(previous.result.value[2], farLimit)

\* C9 witness: neither call saturated, the f-stop raised between them, the
\* limits of the smaller f-stop strictly inside those of the larger
C9_Witness ==
    /\ wider_before /\ RLt(focal, dof_distance)
    /\ ~saturated /\ ~previous_saturated /\ returned
    /\ RLt(nearLimit, previous.result.value[1])
    /\ RLt(previous.result.value[2], farLimit)

(***************************************************************************)
(* Properties of draw_callback_3d, checked under SpecDraw                  *)
(***************************************************************************)
RAbs(x) == <<Abs(x[1]), x[2]>>
camera_objects == {o \in Objects : obj_type(o) = "CAMERA"}
drawn_camera == cameras[cb.cam_ob]
\* the unit forward (view) axis of the camera of the latest run: local -Z
forward_axis == VScale(Num(-1), NormalizedColumn(matrix_world[cb.cam_ob].col[3]))
\* the signed distance of p from the camera position along the view axis
view_depth(p) == Dot(VSub(p, matrix_world[cb.cam_ob].translation), forward_axis)
target_depth == view_depth(matrix_world[drawn_camera.dof.focus_object].translation)
drew_focus_object ==
    cb.called /\ cb.cam_ob # None /\ drawn_camera.dof.focus_object # None

\* C4 (as claimed): with a focus object, the focus distance used by
\* draw_callback_3d is the distance from the camera position to the
\* projection of the target onto the forward line, plus clip_start.
C4_FocusObjectDistance ==
    drew_focus_object => cb.d = RAdd(RAbs(target_depth), drawn_camera.clip_start)

\* C4 (amended): with a focus object, the focus distance used by
\* draw_callback_3d is the distance from the near-clip point on the forward
\* line (at clip_start in front of the camera) to the projection of the
\* target onto that line, plus clip_start; an on-axis target at depth
\* t >= clip_start in front of the camera resolves to t.
C4_FocusObjectDistanceFromStart ==
    drew_focus_object =>
        /\ cb.d = RAdd(RAbs(RSub(target_depth, drawn_camera.clip_start)),
                       drawn_camera.clip_start)
        /\ RLe(drawn_camera.clip_start, target_depth) => cb.d = target_depth

\* C4 witness: the camera at the origin facing -Z with clip_start 0.1 drew
\* with its focus object at (0, 0, -5) and used the focus distance 5
C4_Witness ==
    /\ drew_focus_object
    /\ matrix_world[cb.cam_ob] = Identity
    /\ drawn_camera.clip_start = Rat(1, 10)
    /\ matrix_world[drawn_camera.dof.focus_object].translation
           = Vector(Zero, Zero, Num(-5))
    /\ cb.d = Num(5)

\* C5: a run of draw_callback_3d uses the active object when it is a
\* camera, otherwise the scene camera when that is a camera; when neither
\* is a camera it returns without error, draws no batch, and leaves
\* gpu.state and dof_utils.limits as they were.
C5_CameraSelection ==
    [][draw_callback_3d =>
         /\ cb'.called
         /\ context_object \in camera_objects => cb'.cam_ob = context_object
         /\ (context_object \notin camera_objects /\ scn_camera \in camera_objects)
                => cb'.cam_ob = scn_camera
         /\ (context_object \notin camera_objects /\ scn_camera \notin camera_objects)
                => /\ cb'.cam_ob = None /\ cb'.exc = None
                   /\ batches' = <<>>
                   /\ gpu_state' = gpu_state
                   /\ dofu'.limits = dofu.limits]_vars

\* C5 witness: after a draw that stored limits, the callback ran with
\* neither the active object nor the scene camera a camera: nothing is
\* drawn and the stored limits are still there
C5_Witness ==
    /\ cb.called /\ cb.cam_ob = None
    /\ context_object \notin camera_objects /\ scn_camera \notin camera_objects
    /\ batches = <<>>
    /\ dofu.limits # <<Zero, Zero, Zero>>


neutral_color == <<Num(1), Num(1), Num(1), Rat(1, 10)>>
highlight_color ==
    <<dofu.color_limits[1], dofu.color_limits[2], dofu.color_limits[3],
      dofu.opacity_limits>>
\* the interval of view depths covered by a two-point batch
segment_depths(b) ==
    LET s == view_depth(b.pos[1]) t == view_depth(b.pos[2])
    IN  IF RLe(s, t) THEN <<s, t>> ELSE <<t, s>>
inside_clip_range(b) ==
    /\ RLe(drawn_camera.clip_start, segment_depths(b)[1])
    /\ RLe(segment_depths(b)[2], drawn_camera.clip_end)
\* two segments share at most an endpoint
no_overlap(b1, b2) ==
    \/ RLe(segment_depths(b1)[2], segment_depths(b2)[1])
    \/ RLe(segment_depths(b2)[2], segment_depths(b1)[1])

\* C10: every draw with a camera emits three segments along the forward
\* axis, [far, clip_end] and [clip_start, near] in (1, 1, 1, 0.1) and
\* [near, far] in the highlight colour; they do not overlap and no
\* endpoint lies outside [clip_start, clip_end].
C10_ClipRangeSplit ==
    (cb.called /\ cb.cam_ob # None) =>
        /\ cb.exc = None
        /\ Len(batches) >= 3
        /\ batches[1].color = neutral_color /\ batches[2].color = neutral_color
        /\ batches[3].color = highlight_color
        /\ \A i \in 1..3 : Len(batches[i].pos) = 2 /\ inside_clip_range(batches[i])
        /\ \A i, j \in 1..3 : i < j => no_overlap(batches[i], batches[j])

\* a run of draw_callback_3d that reached the drawing code of lines 227-278
drew == cb.called /\ cb.cam_ob # None /\ cb.exc = None
\* the batches between the three clip-range lines and the focus marker
circle_batches ==
    SubSeq(batches, 4, Len(batches) - (IF dofu.draw_focus THEN 4 ELSE 0))
\* the point of the view axis at a depth in front of the camera
axis_point(depth) ==
    VAdd(matrix_world[cb.cam_ob].translation, VScale(depth, forward_axis))
\* b is a loop of segments_limits + 1 vertices in the plane at a depth, each
\* at the configured radius from the view axis and turned by 2*pi/segments
\* from the one before, the first segments_limits of them distinct and the
\* last one on the first
closed_circle(b, depth) ==
    LET n == dofu.segments_limits
        r2 == RMul(dofu.size_limits, dofu.size_limits)
        spoke(i) == VSub(b.pos[i], axis_point(depth))
    IN  /\ b.type = "LINE_STRIP" /\ b.color = highlight_color
        /\ Len(b.pos) = n + 1
        /\ \A i \in 1..(n + 1) :
              /\ view_depth(b.pos[i]) = depth
              /\ Dot(spoke(i), spoke(i)) = r2
        /\ \A i \in 1..n : Dot(spoke(i), spoke(i + 1)) = RMul(r2, cos_theta(n))
        /\ \A i, j \in 1..n : i # j => b.pos[i] # b.pos[j]
        /\ b.pos[n + 1] = b.pos[1]

\* C11: a draw that reaches the drawing code emits limit circles if and
\* only if size_limits > 0, and then exactly two, the first at the depth of
\* the near limit and the second at the depth of the far limit; each is a
\* polyline of segments_limits + 1 vertices made by the rotation recurrence
\* whose last vertex is its first.
C11_LimitCircles ==
    drew =>
        /\ (circle_batches # <<>>) <=> RLt(Zero, dofu.size_limits)
        /\ RLt(Zero, dofu.size_limits) =>
              /\ Len(circle_batches) = 2
              /\ closed_circle(circle_batches[1], dofu.limits[2])
              /\ closed_circle(circle_batches[2], dofu.limits[3])

\* C11 witness: a camera turned away from the world axes drew with the
\* radius 0.1 and a focus marker: two five-vertex loops lie between the
\* clip-range lines and the marker, at different depths, each ending on
\* its first vertex
C11_Witness ==
    /\ drew
    /\ matrix_world[cb.cam_ob] # Identity
    /\ dofu.size_limits = Rat(1, 10) /\ dofu.draw_focus
    /\ Len(batches) = 9 /\ Len(circle_batches) = 2
    /\ dofu.limits[2] # dofu.limits[3]
    /\ \A k \in 1..2 :
          /\ Len(circle_batches[k].pos) = 5
          /\ circle_batches[k].pos[5] = circle_batches[k].pos[1]
          /\ circle_batches[k].pos[3] # circle_batches[k].pos[1]

(***************************************************************************)
(* Properties of the operators, checked under Spec and SpecPick            *)
(***************************************************************************)
running(op) == \E i \in 1..Len(modal_handlers) : modal_handlers[i].op = op
picking == dofu.use_cursor /\ running("dof_utils.focus_picking")
visualizing == dofu.draw_dof /\ running("dof_utils.visualize_dof")

\* C6 (as claimed): focus picking and the visualization are never active
\* at the same time: use_cursor and draw_dof are never both set, and the
\* two modal operators never run together.
C6_NeverBothActive ==
    /\ ~(dofu.use_cursor /\ dofu.draw_dof)
    /\ ~(running("dof_utils.focus_picking") /\ running("dof_utils.visualize_dof"))

\* C6 (amended): focus picking and the visualization may be active at the
\* same time; what an invocation refuses is a second start of its own
\* operator: focus_picking invoked while use_cursor is set, and
\* visualize_dof invoked while draw_dof is set, start no modal operator,
\* register no handler and leave the flags and handles as they are, and
\* neither invocation changes the flag of the other operator.
C6_OwnFlagBlocksRestart ==
    [][/\ ((\E area \in Areas : focusPicking_invoke(area)) /\ dofu.use_cursor)
            => UNCHANGED <<dofu, modal_handlers, draw_handlers, handleVars>>
       /\ ((\E area \in Areas : visualizeLimits_invoke(area)) /\ dofu.draw_dof)
            => UNCHANGED <<dofu, modal_handlers, draw_handlers, handleVars>>
       /\ (\E area \in Areas : focusPicking_invoke(area))
            => dofu'.draw_dof = dofu.draw_dof
       /\ (\E area \in Areas : visualizeLimits_invoke(area))
            => dofu'.use_cursor = dofu.use_cursor]_vars

\* C6 witness: both operators were invoked and run, both flags set, with
\* the handler of the visualization and the shared instructions registered
C6_Witness ==
    /\ picking /\ visualizing
    /\ Len(modal_handlers) = 2
    /\ removable(draw_handlers, visualize_handle)
    /\ removable(draw_handlers, instructions_handle)

\* the signed distance of the 3D cursor from the active camera along its
\* forward (view) axis
cursor_view_depth ==
    Dot(VSub(cursor_location, matrix_world[context_object].translation),
        VScale(Num(-1), NormalizedColumn(matrix_world[context_object].col[3])))

\* C7: a LEFTMOUSE RELEASE handed to a running focus picking sets the
\* focus distance of the active camera to the distance from the camera to
\* the 3D cursor measured along the forward axis of the camera.
C7_PickAlongViewAxis ==
    [][\A i \in 1..MaxModal :
          (/\ focusPicking_modal(i, [type |-> "LEFTMOUSE", value |-> "RELEASE"], TRUE)
           /\ is_camera(context_object))
            => cameras'[context_object].dof.focus_distance = RAbs(cursor_view_depth)]_vars

\* the callbacks registered with the viewport
registered_3d == {h \in draw_handlers : h.callback = "draw_callback_3d"}
registered_2d == {h \in draw_handlers : h.callback = "draw_callback_2d"}
\* the event, or the cleared flag, makes DOFU_OT_visualizeLimits.modal cancel
cancels(event) == event.type \in {"RIGHTMOUSE", "ESC"} \/ ~dofu.draw_dof

\* C12: when a running visualization handles an ESC or RIGHTMOUSE event, or
\* any event after draw_dof was cleared, the operator ends, and afterwards
\* draw_dof is False, no draw_callback_3d is registered with the viewport
\* and _visualize_handle is None, whether or not the instructions handler
\* was registered.
C12_CancelCleansUp ==
    [][\A i \in 1..MaxModal, event \in Events, area \in {"VIEW_3D", None} :
          (visualizeLimits_modal(i, event, area) /\ cancels(event))
              => /\ modal_handlers' = modal_handler_end(i)
                 /\ ~dofu'.draw_dof
                 /\ \A h \in draw_handlers' : h.callback # "draw_callback_3d"
                 /\ visualize_handle' = None]_vars

\* the running modal operators of dof_utils.visualize_dof
visualize_sessions ==
    {i \in 1..Len(modal_handlers) : modal_handlers[i].op = "dof_utils.visualize_dof"}

\* C13: whatever the order of invocations, kills, modal events and resets,
\* at most one draw_callback_3d is registered with the viewport, at most
\* one visualization runs, every registered draw_callback_3d is the one
\* _visualize_handle refers to, and visualize_dof invoked while a
\* visualization runs registers no handler and starts no operator.
C13_SingleVisualization ==
    /\ [](/\ Cardinality(registered_3d) <= 1
          /\ Cardinality(visualize_sessions) <= 1
          /\ \A h \in registered_3d : h.id = visualize_handle)
    /\ [][((\E area \in Areas : visualizeLimits_invoke(area))
              /\ visualize_sessions # {})
            => UNCHANGED <<draw_handlers, modal_handlers, handleVars>>]_vars

\* C14: dof_utils.reset_viewport, executed on its own or as the last step
\* of reset_preferences and of unregister, leaves no overlay behind:
\* afterwards neither draw_callback_3d nor draw_callback_2d is registered
\* with the viewport and both handles are None, also when a visualization
\* or a focus picking was running.
C14_ResetLeavesNoOverlay ==
    [][(viewportReset_execute \/ preferencesReset_execute \/ unregister)
          => /\ draw_handlers' = {}
             /\ visualize_handle' = None
             /\ instructions_handle' = None]_vars

=============================================================================
